---- MODULE Spec2Model ----
(***************************************************************************)
(* RLDuels: the buffered pipeline between the MongoDB store and the        *)
(* labeling client.                                                        *)
(*                                                                         *)
(*   MongoDBManager        rlduels/src/database/database_manager.py        *)
(*   BufferedQueueManager  rlduels/src/buffered_queue_manager.py           *)
(*   TrajectoryPair        rlduels/src/primitives/trajectory_pair.py       *)
(*                                                                         *)
(* Identifiers are the string forms of UUIDs, compared by MongoDB as       *)
(* strings; they are modelled as the integers 1..MaxId, 0 standing for     *)
(* None.                                                                   *)
(***************************************************************************)
EXTENDS Integers, Sequences, FiniteSets, TLC

\* ---------------------------------------------------------------- bounds
MaxId == 3
NumConsumers == 2
MaxQueue == 2
MaxDirectId == 2
MaxEnv == 3
MaxTrans == 2
MaxSeed == 1

Ids == 1..MaxId
Consumers == 1..NumConsumers
NoId == 0
\* the identifiers of the pairs the direct calls of the adapter are made with
DirectIds == 1..MaxDirectId

\* ------------------------------------------------------- TrajectoryPair
\* preference is stored as 0, 0.5 or 1; the model keeps twice the value.
NoPref == -1
PreferVideo1 == 0
PreferNoVideo == 1
PreferVideo2 == 2
Prefs == {PreferVideo1, PreferNoVideo, PreferVideo2}

\* Shape of the two trajectories of a stored document:
\*   "empty"  no transitions
\*   "flat"   transitions as TrajectoryPair.json() writes them, each a
\*            dict with the keys state, action, reward, ...
\*   "keyed"  transitions each a dict with the single key data
TrajKinds == {"empty", "flat", "keyed"}

NoDoc == [present |-> FALSE, traj |-> "empty", preference |-> NoPref, skipped |-> FALSE]
Doc(k, p, s) == [present |-> TRUE, traj |-> k, preference |-> p, skipped |-> s]

NoEntry == [id |-> NoId, traj |-> "empty", preference |-> NoPref, skipped |-> FALSE,
            video1 |-> FALSE, video2 |-> FALSE]

\* env_name of a Trajectory: the environment identifiers, 0 for none given
EnvNames == 1..MaxEnv
NoEnv == 0

VARIABLES
  store,                \* collection 'videos': _id -> document
  id_of_current_video,  \* MongoDBManager.id_of_current_video
  buffered_queue,       \* BufferedQueueManager.buffered_queue
  is_running,           \* BufferedQueueManager._is_running (threading.Event)
  last_processed_id,    \* BufferedQueueManager.last_processed_id
  pc,                   \* position of the refilling thread in _refill_loop
  new_entry,            \* local new_entry of _refill_loop
  error,                \* what went wrong in the current cycle, "none" if nothing
  cpc,                  \* per consumer: "idle" or "blocked" inside Queue.get
  delivered,            \* history: the entries get_next_entry returned, in order
  close_pc,             \* caller of close_routine: "idle", "joining", "returned"
  closed,               \* history: close_routine has returned at least once
  db_result,            \* what the last direct MongoDBManager.get_next_entry call returned
  db_returned,          \* history: identifiers direct get_next_entry calls returned, in order
  op_result,            \* the last direct call of a MongoDBManager method and what it returned
  pair,                 \* the last TrajectoryPair(...) call and the object it made, if any
  video,                \* the last call of a function of create_video.py and what it did
  session               \* webserver.py: current_entry, the handler in progress, the files on disk

vars == <<store, id_of_current_video, buffered_queue, is_running, last_processed_id,
          pc, new_entry, error, cpc, delivered, close_pc, closed,
          db_result, db_returned, op_result, pair, video, session>>

storeVars == <<store, id_of_current_video>>
directVars == <<db_result, db_returned, op_result, pair, video, session>>
loopVars == <<buffered_queue, is_running, last_processed_id, pc, new_entry, error>>
consumerVars == <<cpc, delivered>>
closeVars == <<close_pc, closed>>

\* ------------------------------------------------------------ the store
\* TrajectoryPair.json() followed by json.loads: every transition becomes
\* a dict keyed by its field names.
Json(ntrans) == IF ntrans = 0 THEN "empty" ELSE "flat"

\* Trajectory.from_dict calls Transition.from_dict(**t) for every dict t of
\* the document; from_dict(cls, data) accepts only the keyword data, so the
\* call raises TypeError for a transition in the shape json() writes.
FromDbOk(doc) == doc.traj # "flat"

\* a base query that forgets the skipped flag
UnprocessedIgnoringSkipped(doc) == doc.preference = NoPref

\* base_query = {"preference": None, "skipped": False}
Unprocessed(doc) == doc.preference = NoPref /\ doc.skipped = FALSE

\* a query that never adds the $gt condition
MatchesNoCursor(cursor, i) == store[i].present /\ Unprocessed(store[i])

\* base_query, plus {"_id": {"$gt": id_of_current_video}} once the cursor is set
Matches(cursor, i) ==
  /\ store[i].present
  /\ Unprocessed(store[i])
  /\ (cursor # NoId => i > cursor)

\* collection.find_one(base_query, sort=[('_id', 1)]): NoId when nothing matches
FindOne(cursor) ==
  IF \E i \in Ids : Matches(cursor, i)
  THEN CHOOSE i \in Ids : Matches(cursor, i) /\ \A j \in Ids : Matches(cursor, j) => i <= j
  ELSE NoId

EntryOf(i) == [id |-> i, traj |-> store[i].traj, preference |-> store[i].preference,
               skipped |-> store[i].skipped, video1 |-> FALSE, video2 |-> FALSE]

\* MongoDBManager.add_entry: insert_one of the json() form; a duplicate _id
\* is reported as an error and changes nothing.
AddEntry(i, ntrans) ==
  /\ store' = IF store[i].present THEN store
              ELSE [store EXCEPT ![i] = Doc(Json(ntrans), NoPref, FALSE)]
  /\ UNCHANGED <<id_of_current_video, loopVars, consumerVars, closeVars, directVars>>

\* A document written to the collection by another producer, with its
\* transitions keyed by data.
InsertDocument(i) ==
  /\ ~store[i].present
  /\ store' = [store EXCEPT ![i] = Doc("keyed", NoPref, FALSE)]
  /\ UNCHANGED <<id_of_current_video, loopVars, consumerVars, closeVars, directVars>>

\* a $set that writes the preference also when the pair has none
UpdateFieldsAlways(doc, p, s) == [doc EXCEPT !.preference = p, !.skipped = s]

\* MongoDBManager.update_entry: $set of preference (when not None) and skipped
UpdateFields(doc, p, s) ==
  [doc EXCEPT !.preference = IF p # NoPref THEN p ELSE @, !.skipped = s]

UpdateEntry(i, p, s) ==
  /\ store' = IF store[i].present THEN [store EXCEPT ![i] = UpdateFields(@, p, s)]
              ELSE store
  /\ UNCHANGED <<id_of_current_video, loopVars, consumerVars, closeVars, directVars>>

\* MongoDBManager.delete_entry
DeleteEntry(i) ==
  /\ store[i].present
  /\ store' = [store EXCEPT ![i] = NoDoc]
  /\ UNCHANGED <<id_of_current_video, loopVars, consumerVars, closeVars, directVars>>

\* MongoDBManager.get_next_entry, as a function of the cursor and of whether
\* the connection holds: the pair, the error and the cursor it leaves.
NoMoreEntries == "No more unprocessed entries found."
ConnectionFailure == "Connection to DB could not be made."
ConversionError == "An error occurred getting the next entry"
RenderError == "Error in refill loop"
NoError == "none"

\* a get_next_entry that never sets the cursor
GetNextEntryCursorKept(cursor, connOk) ==
  LET i == FindOne(cursor) IN
  IF ~connOk THEN [entry |-> NoEntry, error |-> ConnectionFailure, cursor |-> cursor]
  ELSE IF i = NoId THEN [entry |-> NoEntry, error |-> NoMoreEntries, cursor |-> cursor]
  ELSE IF ~FromDbOk(store[i]) THEN [entry |-> NoEntry, error |-> ConversionError, cursor |-> cursor]
  ELSE [entry |-> EntryOf(i), error |-> NoError, cursor |-> cursor]

\* a get_next_entry that moves the cursor only once the document has been
\* converted
GetNextEntryCursorLate(cursor, connOk) ==
  LET i == FindOne(cursor) IN
  IF ~connOk THEN [entry |-> NoEntry, error |-> ConnectionFailure, cursor |-> cursor]
  ELSE IF i = NoId THEN [entry |-> NoEntry, error |-> NoMoreEntries, cursor |-> cursor]
  ELSE IF ~FromDbOk(store[i]) THEN [entry |-> NoEntry, error |-> ConversionError, cursor |-> cursor]
  ELSE [entry |-> EntryOf(i), error |-> NoError, cursor |-> i]

GetNextEntry(cursor, connOk) ==
  LET i == FindOne(cursor) IN
  IF ~connOk THEN [entry |-> NoEntry, error |-> ConnectionFailure, cursor |-> cursor]
  ELSE IF i = NoId THEN [entry |-> NoEntry, error |-> NoMoreEntries, cursor |-> cursor]
  ELSE IF ~FromDbOk(store[i]) THEN [entry |-> NoEntry, error |-> ConversionError, cursor |-> i]
  ELSE [entry |-> EntryOf(i), error |-> NoError, cursor |-> i]

\* the documents between two identifiers that the filter excludes
Excluded(lo, hi) ==
  {i \in Ids : lo < i /\ i < hi /\ store[i].present
                /\ (store[i].preference # NoPref \/ store[i].skipped)}

\* a direct call of db_manager.get_next_entry(), as the store tests make;
\* db_result also records the cursor the call started from, the smallest
\* unprocessed identifier above it at that time and how many labeled or
\* skipped documents the call passed over
DirectGetNextEntry(connOk) ==
  LET r == GetNextEntry(id_of_current_video, connOk) IN
  /\ pc = "nopipeline"
  /\ id_of_current_video' = r.cursor
  /\ db_result' = [entry |-> r.entry, error |-> r.error, after |-> id_of_current_video,
                   first |-> FindOne(id_of_current_video),
                   passed |-> IF r.error = NoError
                              THEN Cardinality(Excluded(id_of_current_video, r.entry.id))
                              ELSE 0]
  /\ db_returned' = IF r.error = NoError THEN Append(db_returned, r.entry.id) ELSE db_returned
  /\ UNCHANGED <<store, loopVars, consumerVars, closeVars, op_result, pair,
                 video, session>>

\* ------------------------------------------ TrajectoryPair construction
\* No TrajectoryPair(...) call made yet.
NoPair == [called |-> FALSE, exists |-> FALSE, form |-> "object", given |-> NoEnv,
           env1 |-> NoEnv, env2 |-> NoEnv, env_name |-> NoEnv,
           preference |-> NoPref, skipped |-> FALSE]

\* a TrajectoryPair without the check_same_environment validator
NewTrajectoryPairUnchecked(form, e1, e2, given) ==
  [called |-> TRUE, exists |-> form = "object", form |-> form, given |-> given,
   env1 |-> e1, env2 |-> e2,
   env_name |-> IF form = "object" THEN e1 ELSE NoEnv,
   preference |-> NoPref, skipped |-> FALSE]

\* TrajectoryPair(trajectory1=..., trajectory2=..., env_name=given):
\* set_env_name runs first on the raw values and reads trajectory1.env_name,
\* which a Trajectory has and a dict has not (AttributeError); it overrides
\* any env_name given. check_same_environment then rejects a trajectory2
\* from another environment. A failed call makes no object.
NewTrajectoryPair(form, e1, e2, given) ==
  [called |-> TRUE, exists |-> form = "object" /\ e1 = e2, form |-> form, given |-> given,
   env1 |-> e1, env2 |-> e2,
   env_name |-> IF form = "object" /\ e1 = e2 THEN e1 ELSE NoEnv,
   preference |-> NoPref, skipped |-> FALSE]

Construct(form, e1, e2, given) ==
  /\ pc = "nopipeline"
  /\ pair' = NewTrajectoryPair(form, e1, e2, given)
  /\ UNCHANGED <<storeVars, loopVars, consumerVars, closeVars, db_result, db_returned, op_result,
                 video, session>>

\* prefer_video1, prefer_video2, prefer_no_video, undo_preference
SetPreference(p) ==
  /\ pair.exists
  /\ pair' = [pair EXCEPT !.preference = p]
  /\ UNCHANGED <<storeVars, loopVars, consumerVars, closeVars, db_result, db_returned, op_result,
                 video, session>>

\* skip, unskip
SetSkipped(b) ==
  /\ pair.exists
  /\ pair' = [pair EXCEPT !.skipped = b]
  /\ UNCHANGED <<storeVars, loopVars, consumerVars, closeVars, db_result, db_returned, op_result,
                 video, session>>

\* ------------------------------------- the store adapter, called directly
\* What the collection does with a request: it serves it, the connection
\* fails (pymongo.errors.ConnectionFailure), or it raises another error.
StoreOutcomes == {"ok", "connection_failure", "operation_failure"}

\* the first component of a (value, error) result that is None
NoValue == "no value"

Added == "Added to the database"
NotAdded == "Not added successfully to db"
Deleted == "Entry successfully deleted."
NoEntryFound == "No entry found with ID"
DeleteError == "Error deleting the entry"
Updated == "Entry successfully updated."
NoUpdateNeeded == "Entry found but no update was needed."
UpdateError == "Error updating the entry"

\* a call's record: the method, its arguments, what the collection did, the
\* (value, error) it returned or that it raised, and for find_entry,
\* get_next_entry and gather_preferences the pair or the list returned
OpResult(op, i, p, s, outcome, value, err, raised, tp, list) ==
  [op |-> op, id |-> i, preference |-> p, skipped |-> s, outcome |-> outcome,
   value |-> value, error |-> err, raised |-> raised, pair |-> tp, list |-> list]

NoCall == OpResult("none", NoId, NoPref, FALSE, "ok", NoValue, NoError, FALSE, NoEntry, <<>>)

\* add_entry: (message, None) or (None, error) and the collection it leaves;
\* insert_one of an _id that exists raises DuplicateKeyError
AddEntryResult(i, ntrans, outcome) ==
  IF outcome = "connection_failure"
  THEN [store |-> store, value |-> NoValue, error |-> ConnectionFailure, raised |-> FALSE]
  ELSE IF outcome = "operation_failure" \/ store[i].present
  THEN [store |-> store, value |-> NoValue, error |-> NotAdded, raised |-> FALSE]
  ELSE [store |-> [store EXCEPT ![i] = Doc(Json(ntrans), NoPref, FALSE)],
        value |-> Added, error |-> NoError, raised |-> FALSE]

\* delete_entry: delete_one and its deleted_count
DeleteEntryResult(i, outcome) ==
  IF outcome = "connection_failure"
  THEN [store |-> store, value |-> NoValue, error |-> ConnectionFailure, raised |-> FALSE]
  ELSE IF outcome = "operation_failure"
  THEN [store |-> store, value |-> NoValue, error |-> DeleteError, raised |-> FALSE]
  ELSE IF store[i].present
  THEN [store |-> [store EXCEPT ![i] = NoDoc], value |-> Deleted, error |-> NoError,
        raised |-> FALSE]
  ELSE [store |-> store, value |-> NoValue, error |-> NoEntryFound, raised |-> FALSE]

\* an update_entry that catches only ConnectionFailure
UpdateEntryResultUncaught(i, p, s, outcome) ==
  IF outcome = "connection_failure"
  THEN [store |-> store, value |-> NoValue, error |-> UpdateError, raised |-> FALSE]
  ELSE IF outcome = "operation_failure"
  THEN [store |-> store, value |-> NoValue, error |-> NoError, raised |-> TRUE]
  ELSE IF store[i].present /\ UpdateFields(store[i], p, s) # store[i]
  THEN [store |-> [store EXCEPT ![i] = UpdateFields(@, p, s)],
        value |-> Updated, error |-> NoError, raised |-> FALSE]
  ELSE [store |-> store, value |-> NoValue, error |-> NoUpdateNeeded, raised |-> FALSE]

\* update_entry: update_one with $set and its modified_count, which is 0
\* both when no document has the _id and when the fields already hold the
\* values; every exception of update_one is caught
UpdateEntryResult(i, p, s, outcome) ==
  IF outcome # "ok"
  THEN [store |-> store, value |-> NoValue, error |-> UpdateError, raised |-> FALSE]
  ELSE IF store[i].present /\ UpdateFields(store[i], p, s) # store[i]
  THEN [store |-> [store EXCEPT ![i] = UpdateFields(@, p, s)],
        value |-> Updated, error |-> NoError, raised |-> FALSE]
  ELSE [store |-> store, value |-> NoValue, error |-> NoUpdateNeeded, raised |-> FALSE]

\* find_entry: the pair, or None when the query or the conversion fails
FindEntryResult(i, outcome) ==
  IF outcome = "ok" /\ store[i].present /\ FromDbOk(store[i]) THEN EntryOf(i) ELSE NoEntry

\* the (pair, preference) tuples of the documents with identifiers up to i
RECURSIVE Tuples(_)
Tuples(i) ==
  IF i = 0 THEN <<>>
  ELSE IF store[i].present THEN Append(Tuples(i - 1), <<i, store[i].preference>>)
  ELSE Tuples(i - 1)

\* gather_preferences: one tuple per document; the handler of a document
\* that fails to convert reads doc['_id'] after it was popped, the KeyError
\* leaves the loop and the outer handler returns []
GatherPreferencesResult(outcome) ==
  IF outcome # "ok" THEN <<>>
  ELSE IF \E i \in Ids : store[i].present /\ ~FromDbOk(store[i]) THEN <<>>
  ELSE Tuples(MaxId)

\* get_next_entry with any failure of the collection
GetNextEntryResult(cursor, outcome) ==
  IF outcome = "operation_failure"
  THEN [entry |-> NoEntry, error |-> ConversionError, cursor |-> cursor]
  ELSE GetNextEntry(cursor, outcome = "ok")

CallAddEntry(i, ntrans, outcome) ==
  LET r == AddEntryResult(i, ntrans, outcome) IN
  /\ pc = "nopipeline"
  /\ store' = r.store
  /\ op_result' = OpResult("add_entry", i, NoPref, FALSE, outcome, r.value, r.error,
                           r.raised, NoEntry, <<>>)
  /\ UNCHANGED <<id_of_current_video, loopVars, consumerVars, closeVars, db_result, db_returned, pair,
                 video, session>>

CallDeleteEntry(i, outcome) ==
  LET r == DeleteEntryResult(i, outcome) IN
  /\ pc = "nopipeline"
  /\ store' = r.store
  /\ op_result' = OpResult("delete_entry", i, NoPref, FALSE, outcome, r.value, r.error,
                           r.raised, NoEntry, <<>>)
  /\ UNCHANGED <<id_of_current_video, loopVars, consumerVars, closeVars, db_result, db_returned, pair,
                 video, session>>

CallUpdateEntry(i, p, s, outcome) ==
  LET r == UpdateEntryResult(i, p, s, outcome) IN
  /\ pc = "nopipeline"
  /\ store' = r.store
  /\ op_result' = OpResult("update_entry", i, p, s, outcome, r.value, r.error,
                           r.raised, NoEntry, <<>>)
  /\ UNCHANGED <<id_of_current_video, loopVars, consumerVars, closeVars, db_result, db_returned, pair,
                 video, session>>

CallFindEntry(i, outcome) ==
  /\ pc = "nopipeline"
  /\ op_result' = OpResult("find_entry", i, NoPref, FALSE, outcome, NoValue, NoError,
                           FALSE, FindEntryResult(i, outcome), <<>>)
  /\ UNCHANGED <<storeVars, loopVars, consumerVars, closeVars, db_result, db_returned, pair,
                 video, session>>

CallGatherPreferences(outcome) ==
  /\ pc = "nopipeline"
  /\ op_result' = OpResult("gather_preferences", NoId, NoPref, FALSE, outcome, NoValue,
                           NoError, FALSE, NoEntry, GatherPreferencesResult(outcome))
  /\ UNCHANGED <<storeVars, loopVars, consumerVars, closeVars, db_result, db_returned, pair,
                 video, session>>

CallGetNextEntry(outcome) ==
  LET r == GetNextEntryResult(id_of_current_video, outcome) IN
  /\ pc = "nopipeline"
  /\ id_of_current_video' = r.cursor
  /\ op_result' = OpResult("get_next_entry", NoId, NoPref, FALSE, outcome, NoValue,
                           r.error, FALSE, r.entry, <<>>)
  /\ UNCHANGED <<store, loopVars, consumerVars, closeVars, db_result, db_returned, pair,
                 video, session>>

\* ---------------------------------------------------------- the renderer
\* create_videos_from_pair(pair): renders both trajectories and attaches
\* video1 and video2; raises for an empty frame list or a frame that is not
\* an RGB array.
RenderOk(entry, framesOk) == entry.traj # "empty" /\ framesOk

CreateVideosFromPair(entry) == [entry EXCEPT !.video1 = TRUE, !.video2 = TRUE]

\* ------------------------------------------------------- create_video.py
\* Trajectory.information: without the key 'seed', or with a seed
NoSeed == -1
Seeds == {NoSeed} \cup (0..MaxSeed)

\* Trajectory.transitions, each transition by its 'terminated or truncated'
TransitionLists == UNION {[1..k -> BOOLEAN] : k \in 0..MaxTrans}

Trajectories == [seed : Seeds, transitions : TransitionLists]
NoTrajectory == [seed |-> NoSeed, transitions |-> <<>>]

\* the arrays env.render() returns: (h, w, 3), (h, w, 4) or (h, w)
FrameShapes == {"rgb", "rgba", "gray"}

EmptyFrames == "The frames list is empty. Cannot generate video."
NotRgb == "Frames are not an RGB-array."
TooManyValues == "too many values to unpack (expected 2)"
NotEnoughValues == "not enough values to unpack (expected 3, got 2)"

\* the transitions at which an episode ends
Terminals(t) == {k \in 1..Len(t.transitions) : t.transitions[k]}

\* a replay that takes the seed out of the trajectory's information at the
\* first episode boundary, as a queue of seeds consumed by the replay
RecreateFramesWithSeedConsuming(t) ==
  [mode |-> "with_seed", error |-> NoError, frames |-> Len(t.transitions),
   steps |-> Len(t.transitions),
   resets |-> 1 + Cardinality(Terminals(t)),
   seed_index |-> [k \in 1..(1 + Cardinality(Terminals(t))) |-> 1],
   after |-> [t EXCEPT !.seed = IF Terminals(t) # {} THEN NoSeed ELSE @]]

\* _recreate_frames_from_trajectory_with_seed: env.reset(seed), then for
\* every transition a step and a frame, and a reset with the same seed after
\* a terminated or truncated one; the trajectory is only read. seed_index
\* is, for every reset in order, the position in the trajectory's seeds of
\* the seed it was made with: ctr stays 0 and information['seed'] is handed
\* to every reset as it is.
RecreateFramesWithSeed(t) ==
  [mode |-> "with_seed", error |-> NoError, frames |-> Len(t.transitions),
   steps |-> Len(t.transitions),
   resets |-> 1 + Cardinality(Terminals(t)),
   seed_index |-> [k \in 1..(1 + Cardinality(Terminals(t))) |-> 1],
   after |-> t]

\* _recreate_frames_from_trajectory_no_seed: '_, transitions = trajectory'
\* iterates the three fields of the pydantic model and raises ValueError
\* before anything else is done
RecreateFramesNoSeed(t) ==
  [mode |-> "no_seed", error |-> TooManyValues, frames |-> 0, steps |-> 0,
   resets |-> 0, seed_index |-> <<>>, after |-> t]

\* _recreate_frames_from_trajectory: information.get('seed') is falsy for a
\* missing seed and for the seed 0
RecreateFrames(t) ==
  IF t.seed = NoSeed \/ t.seed = 0 THEN RecreateFramesNoSeed(t)
  ELSE RecreateFramesWithSeed(t)

\* generate_video_from_frames: the checks of the frame list and of the
\* shape of its first frame come before the VideoWriter is opened
GenerateVideoFromFrames(frames, shape) ==
  IF frames = 0 THEN [error |-> EmptyFrames, written |-> FALSE, path |-> FALSE]
  ELSE IF shape = "gray" THEN [error |-> NotEnoughValues, written |-> FALSE, path |-> FALSE]
  ELSE IF shape # "rgb" THEN [error |-> NotRgb, written |-> FALSE, path |-> FALSE]
  ELSE [error |-> NoError, written |-> TRUE, path |-> TRUE]

\* what a call of _recreate_frames_from_trajectory did with the
\* environment; nothing for the other functions
NoReplay == [mode |-> "none", frames |-> 0, steps |-> 0, resets |-> 0, seed_index |-> <<>>]

\* a call's record: the function, how often it was called on the pair, the
\* trajectories given, the shape of the frames of the environment, the
\* error raised, the paths returned, the files written and the trajectories
\* as the call left them
VideoResult(op, calls, t1, t2, shape, err, p1, p2, w1, w2, a1, a2) ==
  [op |-> op, calls |-> calls, t1 |-> t1, t2 |-> t2, shape |-> shape, error |-> err,
   path1 |-> p1, path2 |-> p2, written1 |-> w1, written2 |-> w2,
   after1 |-> a1, after2 |-> a2, replay |-> NoReplay]


\* the rendering of one trajectory:
\* generate_video_from_frames(_recreate_frames_from_trajectory(t, env))
RenderTrajectory(t, shape) ==
  LET f == RecreateFrames(t)
      g == GenerateVideoFromFrames(f.frames, shape)
  IN  IF f.error # NoError
      THEN VideoResult("render", 1, t, NoTrajectory, shape, f.error,
                       FALSE, FALSE, FALSE, FALSE, f.after, NoTrajectory)
      ELSE VideoResult("render", 1, t, NoTrajectory, shape, g.error,
                       g.path, FALSE, g.written, FALSE, f.after, NoTrajectory)

\* create_video_from_pair: the frames of both trajectories are recreated
\* first, then the two files are written one after the other
CreateVideoFromPair(calls, t1, t2, shape) ==
  LET f1 == RecreateFrames(t1)
      g1 == GenerateVideoFromFrames(f1.frames, shape)
      r2 == RecreateFrames(t2)
      g2 == GenerateVideoFromFrames(r2.frames, shape)
  IN  IF f1.error # NoError
      THEN VideoResult("pair", calls, t1, t2, shape, f1.error,
                       FALSE, FALSE, FALSE, FALSE, f1.after, t2)
      ELSE IF r2.error # NoError
      THEN VideoResult("pair", calls, t1, t2, shape, r2.error,
                       FALSE, FALSE, FALSE, FALSE, f1.after, r2.after)
      ELSE IF g1.error # NoError
      THEN VideoResult("pair", calls, t1, t2, shape, g1.error,
                       FALSE, FALSE, FALSE, FALSE, f1.after, r2.after)
      ELSE IF g2.error # NoError
      THEN VideoResult("pair", calls, t1, t2, shape, g2.error,
                       FALSE, FALSE, TRUE, FALSE, f1.after, r2.after)
      ELSE VideoResult("pair", calls, t1, t2, shape, NoError,
                       TRUE, TRUE, TRUE, TRUE, f1.after, r2.after)

\* the trajectories and the environment a call is going to be made with
VideoInput(t1, t2, shape) ==
  VideoResult("none", 0, t1, t2, shape, NoError, FALSE, FALSE, FALSE, FALSE, t1, t2)

\* no call made and none to be made
NoVideo == VideoInput(NoTrajectory, NoTrajectory, "rgb")

\* _recreate_frames_from_trajectory(t1, env) called on its own
CallRecreateFrames ==
  LET f == RecreateFrames(video.t1) IN
  /\ pc = "nopipeline"
  /\ video.op = "none"
  /\ video' = [video EXCEPT !.op = "replay", !.calls = 1, !.error = f.error,
                            !.after1 = f.after,
                            !.replay = [mode |-> f.mode, frames |-> f.frames,
                                        steps |-> f.steps, resets |-> f.resets,
                                        seed_index |-> f.seed_index]]
  /\ UNCHANGED <<storeVars, loopVars, consumerVars, closeVars,
                 db_result, db_returned, op_result, pair, session>>

CallRenderTrajectory ==
  /\ pc = "nopipeline"
  /\ video.op = "none"
  /\ video' = RenderTrajectory(video.t1, video.shape)
  /\ UNCHANGED <<storeVars, loopVars, consumerVars, closeVars,
                 db_result, db_returned, op_result, pair, session>>

CallCreateVideoFromPair ==
  /\ pc = "nopipeline"
  /\ video.op = "none"
  /\ video' = CreateVideoFromPair(1, video.t1, video.t2, video.shape)
  /\ UNCHANGED <<storeVars, loopVars, consumerVars, closeVars,
                 db_result, db_returned, op_result, pair, session>>

\* a second call on the pair a first call was made on; t1 and t2 keep the
\* trajectories as they were before the first call
CallCreateVideoFromPairAgain ==
  /\ pc = "nopipeline"
  /\ video.op = "pair"
  /\ video.calls = 1
  /\ video' = [CreateVideoFromPair(2, video.after1, video.after2, video.shape)
                 EXCEPT !.t1 = video.t1, !.t2 = video.t2]
  /\ UNCHANGED <<storeVars, loopVars, consumerVars, closeVars,
                 db_result, db_returned, op_result, pair, session>>

\* ------------------------------------------------ BufferedQueueManager
\* BufferedQueueManager(db_manager, n): the configured capacity
n == MaxQueue

\* a queue built with one slot too many
GetQueueMaxPlusOne == n + 1

\* get_queue_max: self.buffered_queue.maxsize, set by queue.Queue(maxsize=n)
GetQueueMax == n

\* get_queue_size: self.buffered_queue.qsize()
GetQueueSize == Len(buffered_queue)

\* queue.Queue.put blocks while the queue holds maxsize items
QueuePutReady(q) == Len(q) < GetQueueMax

\* a get that does not block
QueueGetNoBlock(q) == TRUE

\* queue.Queue.get(block=True) blocks while the queue is empty
QueueGetReady(q) == Len(q) > 0

\* a queue that pops the newest item
QueueGetLifo(q) ==
  IF Len(q) > 0 THEN [item |-> q[Len(q)], rest |-> SubSeq(q, 1, Len(q) - 1)]
  ELSE [item |-> NoEntry, rest |-> q]

\* queue.Queue._get pops the oldest item (FIFO); an empty deque has none
QueueGet(q) ==
  IF Len(q) > 0 THEN [item |-> Head(q), rest |-> Tail(q)]
  ELSE [item |-> NoEntry, rest |-> q]

\* a loop that never reads the flag: while True
LoopTestForever ==
  /\ pc = "test"
  /\ pc' = "size"
  /\ UNCHANGED <<storeVars, buffered_queue, is_running, last_processed_id, new_entry,
                 error, consumerVars, closeVars, directVars>>

\* while self._is_running.is_set():
LoopTest ==
  /\ pc = "test"
  /\ pc' = IF is_running THEN "size" ELSE "exited"
  /\ UNCHANGED <<storeVars, buffered_queue, is_running, last_processed_id, new_entry,
                 error, consumerVars, closeVars, directVars>>

\* a capacity check that lets a cycle go on with a full queue
CheckSizeAtMost ==
  /\ pc = "size"
  /\ pc' = IF GetQueueSize <= GetQueueMax THEN "fetch" ELSE "sleep"
  /\ UNCHANGED <<storeVars, buffered_queue, is_running, last_processed_id, new_entry,
                 error, consumerVars, closeVars, directVars>>

\* a loop that calls the store whatever the size of the queue
CheckSizeIgnored ==
  /\ pc = "size"
  /\ pc' = "fetch"
  /\ UNCHANGED <<storeVars, buffered_queue, is_running, last_processed_id, new_entry,
                 error, consumerVars, closeVars, directVars>>

\* if self.get_queue_size() < self.get_queue_max():
CheckSize ==
  /\ pc = "size"
  /\ pc' = IF GetQueueSize < GetQueueMax THEN "fetch" ELSE "sleep"
  /\ UNCHANGED <<storeVars, buffered_queue, is_running, last_processed_id, new_entry,
                 error, consumerVars, closeVars, directVars>>

\* a loop without the try/except and a store call that raises
FetchUncaught(connOk) ==
  LET r == GetNextEntry(id_of_current_video, connOk) IN
  /\ pc = "fetch"
  /\ id_of_current_video' = r.cursor
  /\ new_entry' = r.entry
  /\ error' = r.error
  /\ pc' = IF r.error = NoError THEN "render"
           ELSE IF r.error = ConnectionFailure THEN "exited" ELSE "sleep"
  /\ UNCHANGED <<store, buffered_queue, is_running, last_processed_id,
                 consumerVars, closeVars, directVars>>

\* a loop whose else branch goes on to the next cycle without sleeping
FetchNoSleep(connOk) ==
  LET r == GetNextEntry(id_of_current_video, connOk) IN
  /\ pc = "fetch"
  /\ id_of_current_video' = r.cursor
  /\ new_entry' = r.entry
  /\ error' = r.error
  /\ pc' = IF r.error = NoError THEN "render" ELSE "test"
  /\ UNCHANGED <<store, buffered_queue, is_running, last_processed_id,
                 consumerVars, closeVars, directVars>>

\* new_entry, error = self.db_manager.get_next_entry(); if not error and new_entry:
Fetch(connOk) ==
  LET r == GetNextEntry(id_of_current_video, connOk) IN
  /\ pc = "fetch"
  /\ id_of_current_video' = r.cursor
  /\ new_entry' = r.entry
  /\ error' = r.error
  /\ pc' = IF r.error = NoError THEN "render" ELSE "sleep"
  /\ UNCHANGED <<store, buffered_queue, is_running, last_processed_id,
                 consumerVars, closeVars, directVars>>

\* a loop that goes on to put the entry whether or not rendering succeeded
RenderErrorIgnored(framesOk) ==
  /\ pc = "render"
  /\ new_entry' = IF RenderOk(new_entry, framesOk) THEN CreateVideosFromPair(new_entry)
                  ELSE new_entry
  /\ pc' = "put"
  /\ error' = IF RenderOk(new_entry, framesOk) THEN error ELSE RenderError
  /\ UNCHANGED <<storeVars, buffered_queue, is_running, last_processed_id,
                 consumerVars, closeVars, directVars>>

\* a loop that, when rendering fails, moves the store's cursor back to the
\* last pair it enqueued, so that the failed pair is fetched again
RenderRetry(framesOk) ==
  /\ pc = "render"
  /\ IF RenderOk(new_entry, framesOk)
     THEN /\ new_entry' = CreateVideosFromPair(new_entry)
          /\ pc' = "put"
          /\ error' = error
          /\ id_of_current_video' = id_of_current_video
     ELSE /\ new_entry' = new_entry
          /\ pc' = "sleep"
          /\ error' = RenderError
          /\ id_of_current_video' = last_processed_id
  /\ UNCHANGED <<store, buffered_queue, is_running, last_processed_id,
                 consumerVars, closeVars, directVars>>

\* create_videos_from_pair(new_entry); an exception is caught by the loop
Render(framesOk) ==
  /\ pc = "render"
  /\ IF RenderOk(new_entry, framesOk)
     THEN /\ new_entry' = CreateVideosFromPair(new_entry)
          /\ pc' = "put"
          /\ error' = error
     ELSE /\ new_entry' = new_entry
          /\ pc' = "sleep"
          /\ error' = RenderError
  /\ UNCHANGED <<storeVars, buffered_queue, is_running, last_processed_id,
                 consumerVars, closeVars, directVars>>

\* a loop that reads the flag again before the put and drops the entry of
\* a cycle that was stopped
PutUnlessStopped ==
  /\ pc = "put"
  /\ QueuePutReady(buffered_queue)
  /\ buffered_queue' = IF is_running THEN Append(buffered_queue, new_entry)
                       ELSE buffered_queue
  /\ pc' = IF is_running THEN "setlast" ELSE "sleep"
  /\ UNCHANGED <<storeVars, is_running, last_processed_id, new_entry, error,
                 consumerVars, closeVars, directVars>>

\* self.buffered_queue.put(new_entry)
Put ==
  /\ pc = "put"
  /\ QueuePutReady(buffered_queue)
  /\ buffered_queue' = Append(buffered_queue, new_entry)
  /\ pc' = "setlast"
  /\ UNCHANGED <<storeVars, is_running, last_processed_id, new_entry, error,
                 consumerVars, closeVars, directVars>>

\* self.last_processed_id = new_entry.id
SetLast ==
  /\ pc = "setlast"
  /\ last_processed_id' = new_entry.id
  /\ pc' = "sleep"
  /\ UNCHANGED <<storeVars, buffered_queue, is_running, new_entry, error,
                 consumerVars, closeVars, directVars>>

\* time.sleep(self.sleep_interval), the last statement of a cycle: at the
\* test that follows nothing has gone wrong in the cycle that begins
Sleep ==
  /\ pc = "sleep"
  /\ pc' = "test"
  /\ error' = NoError
  /\ UNCHANGED <<storeVars, buffered_queue, is_running, last_processed_id, new_entry,
                 consumerVars, closeVars, directVars>>

\* get_next_entry: a consumer enters self.buffered_queue.get(block=True)
CallGet(c) ==
  /\ pc # "nopipeline"
  /\ cpc[c] = "idle"
  /\ cpc' = [cpc EXCEPT ![c] = "blocked"]
  /\ UNCHANGED <<storeVars, loopVars, delivered, closeVars, directVars>>

\* a get with a timeout, whose caller gives up on an empty queue
ReturnGetTimeout(c) ==
  /\ cpc[c] = "blocked"
  /\ buffered_queue' = QueueGet(buffered_queue).rest
  /\ delivered' = IF QueueGetReady(buffered_queue)
                  THEN Append(delivered, QueueGet(buffered_queue).item)
                  ELSE delivered
  /\ cpc' = [cpc EXCEPT ![c] = "idle"]
  /\ UNCHANGED <<storeVars, is_running, last_processed_id, pc, new_entry, error,
                 closeVars, directVars>>

\* a get that waits for a lock the refilling thread holds during its store
\* call, its rendering and its sleep
ReturnGetLocked(c) ==
  /\ cpc[c] = "blocked"
  /\ pc \notin {"fetch", "render", "sleep"}
  /\ QueueGetReady(buffered_queue)
  /\ buffered_queue' = QueueGet(buffered_queue).rest
  /\ delivered' = Append(delivered, QueueGet(buffered_queue).item)
  /\ cpc' = [cpc EXCEPT ![c] = "idle"]
  /\ UNCHANGED <<storeVars, is_running, last_processed_id, pc, new_entry, error,
                 closeVars, directVars>>

\* ... and returns with the head of the queue
ReturnGet(c) ==
  /\ cpc[c] = "blocked"
  /\ QueueGetReady(buffered_queue)
  /\ buffered_queue' = QueueGet(buffered_queue).rest
  /\ delivered' = Append(delivered, QueueGet(buffered_queue).item)
  /\ cpc' = [cpc EXCEPT ![c] = "idle"]
  /\ UNCHANGED <<storeVars, is_running, last_processed_id, pc, new_entry, error,
                 closeVars, directVars>>

\* a close_routine that flips the running flag instead of clearing it
CloseClearToggle ==
  /\ pc # "nopipeline"
  /\ close_pc \in {"idle", "returned"}
  /\ is_running' = ~is_running
  /\ close_pc' = "joining"
  /\ UNCHANGED <<storeVars, buffered_queue, last_processed_id, pc, new_entry, error,
                 consumerVars, closed, directVars>>

\* close_routine: self._is_running.clear()
CloseClear ==
  /\ pc # "nopipeline"
  /\ close_pc \in {"idle", "returned"}
  /\ is_running' = FALSE
  /\ close_pc' = "joining"
  /\ UNCHANGED <<storeVars, buffered_queue, last_processed_id, pc, new_entry, error,
                 consumerVars, closed, directVars>>

\* a close_routine that returns without joining the thread
CloseNoJoin ==
  /\ close_pc = "joining"
  /\ close_pc' = "returned"
  /\ closed' = TRUE
  /\ UNCHANGED <<storeVars, loopVars, consumerVars, directVars>>

\* close_routine: self.refilling_thread.join()
CloseJoin ==
  /\ close_pc = "joining"
  /\ pc = "exited"
  /\ close_pc' = "returned"
  /\ closed' = TRUE
  /\ UNCHANGED <<storeVars, loopVars, consumerVars, directVars>>

\* ------------------------------------------------ webserver.py
\* the answers of the handlers: the videos of the entry just dequeued, the
\* same videos again, the two success messages, and status 500
NextVideos == "next videos"
SameVideos == "same videos"
PreferenceUpdated == "Preference updated successfully."
PairSkipped == "Video pair skipped successfully."
Terminated == "Terminated WebApp"
Status500 == "status 500"

\* before the first request: current_entry = None, no handler in progress,
\* no file of a dequeued entry on disk, no request answered
NoSession == [current_entry |-> NoEntry, handler |-> "idle", disk |-> {}, reply |-> "none"]

\* the identifiers of the dequeued entries whose video files are on disk,
\* once the files of an entry have been handed over with it
WithVideos(entry, disk) ==
  IF entry.video1 \/ entry.video2 THEN disk \cup {entry.id} ELSE disk

\* a delete_videos that leaves the files where they are
DeleteVideosKept(entry, disk) == disk

\* TrajectoryPair.delete_videos: os.remove of video1 and of video2, each if
\* it is set and exists
DeleteVideos(entry, disk) == disk \ {entry.id}

\* a get_current_video_pair that moves on whatever the current entry is
GetCurrentVideoPairAlways ==
  /\ pc # "nopipeline"
  /\ session.handler = "idle"
  /\ session' = [session EXCEPT !.handler = "waiting",
                                !.disk = DeleteVideos(session.current_entry, @)]
  /\ UNCHANGED <<storeVars, loopVars, consumerVars, closeVars,
                 db_result, db_returned, op_result, pair, video>>

\* GET /get_current_video_pair with an entry that has no preference yet:
\* the same videos are returned; otherwise the videos of current_entry are
\* deleted and the handler enters buffered_queue.get_next_entry()
GetCurrentVideoPair ==
  /\ pc # "nopipeline"
  /\ session.handler = "idle"
  /\ session' =
       IF session.current_entry = NoEntry
       THEN [session EXCEPT !.handler = "waiting"]
       ELSE IF session.current_entry.preference # NoPref
       THEN [session EXCEPT !.handler = "waiting",
                            !.disk = DeleteVideos(session.current_entry, @)]
       ELSE [session EXCEPT !.reply = SameVideos]
  /\ UNCHANGED <<storeVars, loopVars, consumerVars, closeVars,
                 db_result, db_returned, op_result, pair, video>>

\* ... get_next_entry returns the head of the queue, which becomes
\* current_entry
GetCurrentVideoPairReturn ==
  /\ session.handler = "waiting"
  /\ QueueGetReady(buffered_queue)
  /\ buffered_queue' = QueueGet(buffered_queue).rest
  /\ delivered' = Append(delivered, QueueGet(buffered_queue).item)
  /\ session' = [session EXCEPT !.current_entry = QueueGet(buffered_queue).item,
                                !.handler = "idle",
                                !.disk = WithVideos(QueueGet(buffered_queue).item, @),
                                !.reply = NextVideos]
  /\ UNCHANGED <<storeVars, is_running, last_processed_id, pc, new_entry, error,
                 cpc, closeVars, db_result, db_returned, op_result, pair, video>>

\* POST /update_preference: prefer_video1, prefer_video2 or prefer_no_video
\* on current_entry, then db_manager.update_entry(current_entry), whose
\* result is only logged; status 500 without a current entry
UpdatePreference(p, outcome) ==
  /\ pc # "nopipeline"
  /\ session.handler = "idle"
  /\ IF session.current_entry = NoEntry
     THEN /\ session' = [session EXCEPT !.reply = Status500]
          /\ store' = store
     ELSE /\ session' = [session EXCEPT !.current_entry.preference = p,
                                        !.reply = PreferenceUpdated]
          /\ store' = UpdateEntryResult(session.current_entry.id, p,
                                        session.current_entry.skipped, outcome).store
  /\ UNCHANGED <<id_of_current_video, loopVars, consumerVars, closeVars,
                 db_result, db_returned, op_result, pair, video>>

\* GET /skip_video_pair: current_entry.skip() and update_entry; without a
\* current entry the AttributeError is caught and answered with status 500
SkipPair(outcome) ==
  /\ pc # "nopipeline"
  /\ session.handler = "idle"
  /\ IF session.current_entry = NoEntry
     THEN /\ session' = [session EXCEPT !.reply = Status500]
          /\ store' = store
     ELSE /\ session' = [session EXCEPT !.current_entry.skipped = TRUE,
                                        !.reply = PairSkipped]
          /\ store' = UpdateEntryResult(session.current_entry.id,
                                        session.current_entry.preference, TRUE, outcome).store
  /\ UNCHANGED <<id_of_current_video, loopVars, consumerVars, closeVars,
                 db_result, db_returned, op_result, pair, video>>

\* POST /terminate: gather_preferences, current_entry.delete_videos(), then
\* close_routine clears the flag and joins; without a current entry
\* delete_videos raises AttributeError and the request ends there
Terminate ==
  /\ pc # "nopipeline"
  /\ session.handler = "idle"
  /\ IF session.current_entry = NoEntry
     THEN /\ session' = [session EXCEPT !.reply = Status500]
          /\ is_running' = is_running
     ELSE /\ session' = [session EXCEPT !.handler = "closing",
                                        !.disk = DeleteVideos(session.current_entry, @)]
          /\ is_running' = FALSE
  /\ UNCHANGED <<storeVars, buffered_queue, last_processed_id, pc, new_entry, error,
                 consumerVars, closeVars, db_result, db_returned, op_result, pair, video>>

\* ... the join returns, close_db stops mongod and the session is over
TerminateReturn ==
  /\ session.handler = "closing"
  /\ pc = "exited"
  /\ session' = [session EXCEPT !.handler = "terminated", !.reply = Terminated]
  /\ UNCHANGED <<storeVars, loopVars, consumerVars, closeVars,
                 db_result, db_returned, op_result, pair, video>>

InitPipeline ==
  /\ id_of_current_video = NoId
  /\ buffered_queue = <<>>
  /\ is_running = TRUE
  /\ last_processed_id = NoId
  /\ new_entry = NoEntry
  /\ error = NoError
  /\ cpc = [c \in Consumers |-> "idle"]
  /\ delivered = <<>>
  /\ close_pc = "idle"
  /\ closed = FALSE
  /\ db_result = [entry |-> NoEntry, error |-> NoError, after |-> NoId, first |-> NoId, passed |-> 0]
  /\ db_returned = <<>>
  /\ op_result = NoCall
  /\ pair = NoPair
  /\ session = NoSession

InitRest ==
  /\ InitPipeline
  /\ video = NoVideo

InitCommon ==
  /\ store = [i \in Ids |-> NoDoc]
  /\ InitRest

\* MongoDBManager and BufferedQueueManager constructed, the thread started
Init == InitCommon /\ pc = "test"

\* the label updates made while the pipeline runs: skip() and unskip()
LabelInputs == {<<NoPref, TRUE>>, <<NoPref, FALSE>>}

\* writes to the collection while the pipeline runs; simulate_one_episode
\* records at least one transition per trajectory. An add_entry of an
\* identifier already stored and an update_entry that finds no document or
\* changes no field leave every variable as it is: they are stuttering steps.
StoreWrite ==
  \/ \E i \in Ids : ~store[i].present /\ AddEntry(i, 1)
  \/ \E i \in Ids : InsertDocument(i)
  \/ \E i \in Ids, l \in LabelInputs :
        /\ store[i].present
        /\ store[i].skipped # l[2]
        /\ UpdateEntry(i, l[1], l[2])

RefillLoop ==
  \/ LoopTest
  \/ CheckSize
  \/ \E connOk \in BOOLEAN : Fetch(connOk)
  \/ \E framesOk \in BOOLEAN : Render(framesOk)
  \/ Put
  \/ SetLast
  \/ Sleep

Consumer ==
  \/ \E c \in Consumers : CallGet(c)
  \/ \E c \in Consumers : ReturnGet(c)

CloseRoutine ==
  \/ CloseClear
  \/ CloseJoin

Next ==
  \/ StoreWrite
  \/ RefillLoop
  \/ Consumer
  \/ CloseRoutine

Spec == Init /\ [][Next]_vars

\* The pipeline with its consumers and the caller of close_routine, on
\* documents that convert, with every store and render failure.
NextShutdown ==
  \/ \E i \in Ids : InsertDocument(i)
  \/ RefillLoop
  \/ Consumer
  \/ CloseRoutine

SpecShutdown == Init /\ [][NextShutdown]_vars

\* SpecShutdown with the refilling thread and the caller of close_routine
\* scheduled fairly: every store call, rendering and sleep returns, and a
\* join whose thread has exited returns. Nothing is assumed of the
\* consumers or of the writers to the store.
FairShutdown ==
  /\ SpecShutdown
  /\ WF_vars(RefillLoop)
  /\ WF_vars(CloseJoin)

\* The store adapter alone, called directly as tests/mongodb_test.py does.
InitStore == InitCommon /\ pc = "nopipeline"

NextStore ==
  \/ \E i \in Ids, ntrans \in 0..1 : AddEntry(i, ntrans)
  \/ \E i \in Ids, p \in {NoPref, PreferVideo2}, s \in BOOLEAN : UpdateEntry(i, p, s)
  \/ \E i \in Ids : DeleteEntry(i)
  \/ \E connOk \in BOOLEAN : DirectGetNextEntry(connOk)

SpecStore == InitStore /\ [][NextStore]_vars

\* Every method of the adapter called directly, with every outcome of the
\* collection.
NextAdapter ==
  \/ \E i \in DirectIds, ntrans \in 0..1, o \in StoreOutcomes : CallAddEntry(i, ntrans, o)
  \/ \E i \in DirectIds, o \in StoreOutcomes : CallDeleteEntry(i, o)
  \/ \E i \in DirectIds, p \in {NoPref, PreferVideo2}, s \in BOOLEAN, o \in StoreOutcomes :
       CallUpdateEntry(i, p, s, o)
  \/ \E i \in DirectIds, o \in StoreOutcomes : CallFindEntry(i, o)
  \/ \E o \in StoreOutcomes : CallGatherPreferences(o)
  \/ \E o \in StoreOutcomes : CallGetNextEntry(o)

SpecAdapter == InitStore /\ [][NextAdapter]_vars

\* TrajectoryPair objects built from any two trajectories and labeled
\* through their methods.
NextPair ==
  \/ \E form \in {"object", "dict"}, e1 \in EnvNames, e2 \in EnvNames,
        given \in EnvNames \cup {NoEnv} : Construct(form, e1, e2, given)
  \/ \E p \in Prefs \cup {NoPref} : SetPreference(p)
  \/ \E b \in BOOLEAN : SetSkipped(b)

SpecPair == InitStore /\ [][NextPair]_vars

\* The web server: one session that asks for pairs, labels or skips them
\* and terminates, served by the pipeline started on a collection of pairs
\* that convert, with every failure of the store and of the rendering.
InitServing ==
  /\ store = [i \in Ids |-> Doc("keyed", NoPref, FALSE)]
  /\ InitRest
  /\ pc = "test"

Requests ==
  \/ GetCurrentVideoPair
  \/ GetCurrentVideoPairReturn
  \/ \E p \in Prefs, o \in StoreOutcomes : UpdatePreference(p, o)
  \/ \E o \in StoreOutcomes : SkipPair(o)
  \/ Terminate
  \/ TerminateReturn

NextServing ==
  \/ RefillLoop
  \/ Requests

SpecServing == InitServing /\ [][NextServing]_vars

\* The functions of create_video.py called on any trajectories, on an
\* environment with frames of any shape, while the collection holds pairs
\* as add_entry writes them.
InitVideo ==
  /\ store \in [Ids -> {NoDoc, Doc(Json(1), NoPref, FALSE)}]
  /\ InitPipeline
  /\ video \in {VideoInput(t1, t2, shape) :
                  t1 \in Trajectories, t2 \in Trajectories, shape \in FrameShapes}
  /\ pc = "nopipeline"

NextVideo ==
  \/ CallRecreateFrames
  \/ CallRenderTrajectory
  \/ CallCreateVideoFromPair
  \/ CallCreateVideoFromPairAgain

SpecVideo == InitVideo /\ [][NextVideo]_vars

\* The pipeline on pairs that convert and render, with no store or render
\* failure, no label update and no shutdown: the runs of
\* test_queue_refill_and_retrieve.
NextDeliverable ==
  \/ \E i \in Ids : InsertDocument(i)
  \/ LoopTest
  \/ CheckSize
  \/ Fetch(TRUE)
  \/ Render(TRUE)
  \/ Put
  \/ SetLast
  \/ Sleep
  \/ Consumer

SpecDeliverable == Init /\ [][NextDeliverable]_vars

\* The threads of SpecDeliverable scheduled fairly: the refilling thread
\* keeps running and a consumer that can call or return does so.
FairDeliverable ==
  /\ SpecDeliverable
  /\ WF_vars(LoopTest \/ CheckSize \/ Fetch(TRUE) \/ Render(TRUE) \/ Put \/ SetLast \/ Sleep)
  /\ \A c \in Consumers : WF_vars(CallGet(c)) /\ WF_vars(ReturnGet(c))

\* The pipeline started on a store that already holds a pair under every
\* identifier, as the pipeline tests set it up: written by add_entry or by
\* another producer, some of them skipped or labeled by update_entry before
\* the start; nothing writes to the store afterwards.
ScenarioDocs ==
  {Doc(k, NoPref, s) : k \in {Json(1), "keyed"}, s \in BOOLEAN}
    \cup {Doc(k, PreferVideo2, FALSE) : k \in {Json(1), "keyed"}}

InitScenario ==
  /\ store \in [Ids -> ScenarioDocs]
  /\ InitRest
  /\ pc = "test"

NextScenario ==
  \/ LoopTest
  \/ CheckSize
  \/ Fetch(TRUE)
  \/ Render(TRUE)
  \/ Put
  \/ SetLast
  \/ Sleep
  \/ Consumer

SpecScenario == InitScenario /\ [][NextScenario]_vars

\* The refill loop and its consumers on a store filled before the start
\* and not written to afterwards: under an identifier there is no pair, a
\* pair without transitions, a pair as add_entry writes it or a pair that
\* converts; every store call can fail and every rendering can fail.
RefillDocs == {NoDoc} \cup {Doc(k, NoPref, FALSE) : k \in TrajKinds}

InitRefill ==
  /\ store \in [Ids -> RefillDocs]
  /\ InitRest
  /\ pc = "test"

NextRefill ==
  \/ RefillLoop
  \/ Consumer

SpecRefill == InitRefill /\ [][NextRefill]_vars

\* The refill loop and its consumers on a store filled before the start
\* with pairs that have transitions, written by add_entry or by another
\* producer; the store is unreachable in any cycle, every rendering
\* succeeds.
TransientDocs == {NoDoc, Doc(Json(1), NoPref, FALSE), Doc("keyed", NoPref, FALSE)}

InitTransient ==
  /\ store \in [Ids -> TransientDocs]
  /\ InitRest
  /\ pc = "test"

NextTransient ==
  \/ LoopTest
  \/ CheckSize
  \/ \E connOk \in BOOLEAN : Fetch(connOk)
  \/ Render(TRUE)
  \/ Put
  \/ SetLast
  \/ Sleep
  \/ Consumer

SpecTransient == InitTransient /\ [][NextTransient]_vars

\* ---------------------------------------------------------------- claims
DeliveredIds == [k \in 1..Len(delivered) |-> delivered[k].id]
QueueIds == [k \in 1..Len(buffered_queue) |-> buffered_queue[k].id]
\* every identifier ever put into the queue, in the order of the puts
PushedIds == DeliveredIds \o QueueIds
IsDelivered(i) == \E k \in 1..Len(delivered) : delivered[k].id = i

\* C1: the entries returned by get_next_entry of the pipeline, taken over all
\* consumers, come in nondecreasing identifier order.
C1_DeliveryOrder ==
  \A j, k \in 1..Len(delivered) : j < k => delivered[j].id <= delivered[k].id

\* two deliveries have happened while an unprocessed pair with a smaller
\* identifier, inserted behind the cursor, sits in the store
C1_Witness ==
  /\ Len(delivered) >= 2
  /\ \E i \in Ids : /\ store[i].present /\ Unprocessed(store[i])
                    /\ i < delivered[1].id

\* C2: no identifier is put into the queue twice, so none is returned by
\* get_next_entry more than once.
C2_NoDuplicate ==
  \A j, k \in 1..Len(PushedIds) : j # k => PushedIds[j] # PushedIds[k]

\* two deliveries have happened, one of the delivered pairs is (again)
\* unprocessed in the store after a label update, and the cursor is past it
C2_Witness ==
  /\ Len(delivered) >= 2
  /\ \E k \in 1..Len(delivered) :
       /\ store[delivered[k].id].present
       /\ Unprocessed(store[delivered[k].id])
       /\ id_of_current_video > delivered[k].id
  /\ \E i \in Ids : store[i].present /\ store[i].skipped

\* C3: every pair inserted into the store, also one inserted while the
\* refill loop is already polling, is eventually returned by get_next_entry
\* of the pipeline.
C3_AllDelivered ==
  \A i \in Ids : [](store[i].present => <>IsDelivered(i))

\* C4: the queue never holds more than the configured capacity n.
C4_Bounded == Len(buffered_queue) >= 0 /\ Len(buffered_queue) <= n

\* the loop is at its capacity check with a full queue, nothing was ever
\* dequeued, and the store holds a further unprocessed pair above the cursor
C4_Witness ==
  /\ pc = "size"
  /\ Len(buffered_queue) = n
  /\ delivered = <<>>
  /\ FindOne(id_of_current_video) # NoId

\* C5: a pair returned by get_next_entry of the store adapter has, in the
\* store at the time of the call, no preference and skipped = false.
C5_NeverProcessed ==
  db_result.error = NoError =>
    db_result.entry.preference = NoPref /\ db_result.entry.skipped = FALSE

\* a call returned a pair and passed over a labeled or skipped document
\* that lies between the cursor it started from and the pair it returned
C5_Witness == db_result.error = NoError /\ db_result.passed > 0

\* C6: with the store reachable, get_next_entry returns the unprocessed
\* entry with the smallest identifier above the cursor, and "No more
\* unprocessed entries found." when there is none.
C6_SmallestUnprocessed ==
  db_result.error # ConnectionFailure =>
    IF db_result.first # NoId
    THEN db_result.error = NoError /\ db_result.entry.id = db_result.first
    ELSE db_result.error \in {NoMoreEntries, NoError} /\ db_result.entry = NoEntry

C8_ErrorsContained ==
  /\ [][(pc \in {"fetch", "render"} /\ pc' # pc /\ error' # NoError)
          => (pc' = "sleep" /\ buffered_queue' = buffered_queue /\ delivered' = delivered)]_vars
  /\ [][(pc = "test" /\ pc' # pc /\ is_running) => pc' = "size"]_vars
  /\ [](pc = "exited" => ~is_running)
  /\ [](\A k \in 1..Len(delivered) : delivered[k].id # NoId)

\* after a cycle in which the conversion or the rendering of the fetched
\* pair failed (the cursor of the store is not at the pair put last) the
\* loop, still running, is in its next cycle
C8_Witness ==
  /\ id_of_current_video # last_processed_id
  /\ pc = "size"
  /\ is_running

\* C9: get_next_entry of the pipeline returns only from a non-empty queue,
\* returns its head, never an absent value, and removes it.
C9_BlockingGet ==
  [][\A c \in Consumers :
       (cpc[c] = "blocked" /\ cpc'[c] = "idle")
         => /\ Len(buffered_queue) > 0
            /\ Head(buffered_queue).id # NoId
            /\ delivered' = Append(delivered, Head(buffered_queue))
            /\ buffered_queue' = Tail(buffered_queue)]_vars

\* a get has returned and emptied the queue, and another call is blocked on
\* the empty queue
C9_Witness ==
  /\ Len(delivered) >= 1
  /\ buffered_queue = <<>>
  /\ \E c \in Consumers : cpc[c] = "blocked"

\* C10: once close_routine has returned, is_running() is false, the thread
\* has exited, no entry is enqueued and neither cursor moves.
C10_FrozenAfterClose ==
  /\ [](closed => (~is_running /\ pc = "exited"))
  /\ [][closed => /\ \/ buffered_queue' = buffered_queue
                     \/ (buffered_queue # <<>> /\ buffered_queue' = Tail(buffered_queue))
                  /\ id_of_current_video' = id_of_current_video
                  /\ last_processed_id' = last_processed_id]_vars

\* close_routine has returned, the queue has room and the store still
\* holds an unprocessed pair above the cursor
C10_Witness ==
  /\ closed
  /\ Len(buffered_queue) < n
  /\ FindOne(id_of_current_video) # NoId

\* C11: a close_routine called after an earlier call has returned finds the
\* thread already exited, so its join returns at once; its steps end in
\* "returned" and leave the queue, both cursors, the running flag and the
\* thread as the first call left them.
C11_ShutdownIdempotent ==
  /\ [](closed /\ close_pc = "joining" => pc = "exited" /\ ~is_running)
  /\ [][(closed /\ close_pc' # close_pc)
          => /\ close_pc' \in {"joining", "returned"}
             /\ UNCHANGED <<buffered_queue, id_of_current_video, last_processed_id,
                            is_running, pc>>]_vars

\* a second close_routine has cleared the flag and is at its join, with
\* entries still in the queue and the cursor set by the last put
C11_Witness ==
  /\ closed
  /\ close_pc = "joining"
  /\ buffered_queue # <<>>
  /\ last_processed_id # NoId

\* C12 as stated: once close_routine has been called, a call blocked on an
\* empty queue can never return, that is, nothing is put into the queue
\* it waits on.
C12_NeverReleased ==
  [][\A c \in Consumers :
       (~is_running /\ buffered_queue = <<>> /\ cpc[c] = "blocked")
         => buffered_queue' = <<>>]_vars

\* C12 amended: once close_routine has returned, a call blocked on an empty
\* queue stays blocked: the queue stays empty and nothing is delivered,
\* neither an entry nor an error.
C12_BlockedAfterClose ==
  [][\A c \in Consumers :
       (closed /\ buffered_queue = <<>> /\ cpc[c] = "blocked")
         => /\ cpc'[c] = "blocked"
            /\ buffered_queue' = <<>>
            /\ delivered' = delivered]_vars

\* close_routine has returned, every consumer is blocked on the empty queue
\* and the store still holds an unprocessed pair above the cursor
C12_Witness ==
  /\ closed
  /\ buffered_queue = <<>>
  /\ \A c \in Consumers : cpc[c] = "blocked"
  /\ FindOne(id_of_current_video) # NoId

\* the identifiers of the pairs the store holds unlabeled and unskipped
UnprocessedIds == {i \in Ids : store[i].present /\ Unprocessed(store[i])}

\* C13: on a store that holds its unprocessed pairs from the start, the k-th
\* entry put into the queue is the k-th unprocessed pair, after a put the
\* last cursor is the identifier of the last entry put, and the loop finds
\* the store exhausted only when every unprocessed pair has been put; so
\* with n or more such pairs and no consumer the queue fills to n with the
\* last cursor at the n-th pair, and refills after k dequeues with the
\* cursor k pairs further.
C13_QueueFills ==
  /\ \A k \in 1..Len(PushedIds) :
       /\ PushedIds[k] \in UnprocessedIds
       /\ Cardinality({j \in UnprocessedIds : j <= PushedIds[k]}) = k
  /\ (pc \in {"sleep", "test", "size"} /\ Len(PushedIds) > 0)
       => last_processed_id = PushedIds[Len(PushedIds)]
  /\ (pc = "sleep" /\ error = NoMoreEntries)
       => Len(PushedIds) = Cardinality(UnprocessedIds)
  /\ (pc = "sleep" /\ delivered = <<>> /\ Len(buffered_queue) < n)
       => (error = NoError \/ Cardinality(UnprocessedIds) < n)

\* C14: a pair skipped or labeled before the pipeline starts is never put
\* into the queue, and once the loop has found the store exhausted and the
\* queue has been drained the delivered identifiers are exactly those of
\* the unprocessed pairs.
C14_SkippedNeverDelivered ==
  /\ \A k \in 1..Len(PushedIds) : Unprocessed(store[PushedIds[k]])
  /\ (pc = "sleep" /\ error = NoMoreEntries /\ buffered_queue = <<>>)
       => {delivered[k].id : k \in 1..Len(delivered)} = UnprocessedIds

\* C15: add_entry, update_entry, delete_entry and get_next_entry never raise,
\* whatever the collection does, and return a pair in which exactly one of
\* the value and the error is None.
C15_NeverRaises ==
  op_result.op \in {"add_entry", "update_entry", "delete_entry", "get_next_entry"}
    => /\ ~op_result.raised
       /\ (IF op_result.op = "get_next_entry" THEN op_result.pair = NoEntry
           ELSE op_result.value = NoValue) = (op_result.error # NoError)

\* one of the four methods was called while the collection failed and
\* returned an error
C15_Witness ==
  /\ op_result.op \in {"add_entry", "update_entry", "delete_entry", "get_next_entry"}
  /\ op_result.outcome # "ok"
  /\ op_result.error # NoError
  /\ \E i \in Ids : store[i].present

\* C16: update_entry of an identifier that has no record fails with an error
\* other than the one reported for an update that changes nothing.
C16_NotFoundDistinct ==
  (op_result.op = "update_entry" /\ op_result.outcome = "ok"
     /\ ~store[op_result.id].present)
    => op_result.error \notin {NoError, NoUpdateNeeded}

\* C17 as stated: after a successful update_entry the record holds the
\* preference and the skipped value of the pair given.
C17_HoldsGivenValues ==
  (op_result.op = "update_entry" /\ op_result.error = NoError)
    => /\ store[op_result.id].preference = op_result.preference
       /\ store[op_result.id].skipped = op_result.skipped

\* C17 amended: a successful update_entry changes, in the record with the
\* given identifier and in no other, the skipped field to the given value
\* and the preference to the given one when the pair has one; with no
\* preference given the stored preference stays, as do the trajectories.
C17_UpdateFrame ==
  [][(op_result'.op = "update_entry" /\ op_result'.error = NoError
        /\ <<store, op_result>>' # <<store, op_result>>)
      => /\ store[op_result'.id].present
         /\ store' = [store EXCEPT ![op_result'.id] =
                        [@ EXCEPT !.skipped = op_result'.skipped,
                                  !.preference = IF op_result'.preference # NoPref
                                                 THEN op_result'.preference ELSE @]]]_vars

\* a labeled record was updated with a pair that has no preference and the
\* update succeeded, with another record in the store
C17_Witness ==
  /\ op_result.op = "update_entry"
  /\ op_result.error = NoError
  /\ op_result.preference = NoPref
  /\ store[op_result.id].preference = PreferVideo2
  /\ \E i \in Ids : i # op_result.id /\ store[i].present

\* C18: gather_preferences returns one tuple per record of the store, each
\* with the preference the record holds.
C18_OneTuplePerRecord ==
  (op_result.op = "gather_preferences" /\ op_result.outcome = "ok")
    => /\ Len(op_result.list) = Cardinality({i \in Ids : store[i].present})
       /\ \A i \in Ids : store[i].present =>
            \E k \in 1..Len(op_result.list) : op_result.list[k] = <<i, store[i].preference>>

\* C19: find_entry of a pair that is in the store returns a pair with its
\* identifier; after a successful delete_entry the record is gone; with the
\* collection reachable delete_entry fails only with 'No entry found', on an
\* identifier that has no record.
C19_AddFindDelete ==
  /\ (op_result.op = "find_entry" /\ op_result.outcome = "ok"
        /\ store[op_result.id].present)
       => op_result.pair.id = op_result.id
  /\ (op_result.op = "delete_entry" /\ op_result.error = NoError)
       => ~store[op_result.id].present
  /\ (op_result.op = "delete_entry" /\ op_result.outcome = "ok"
        /\ op_result.error # NoError)
       => op_result.error = NoEntryFound /\ NoEntryFound # ConnectionFailure

\* C20: a TrajectoryPair(...) call with trajectories of different env_name
\* makes no object; every TrajectoryPair that exists has trajectories of
\* the same env_name, which is also its own env_name, whatever env_name
\* the call gave and whatever labels it got since.
C20_SameEnvironment ==
  /\ (pair.called /\ pair.env1 # pair.env2) => ~pair.exists
  /\ pair.exists => (pair.env1 = pair.env2 /\ pair.env_name = pair.env1)

\* a call with two Trajectory objects of different environments has failed
C20_Witness ==
  /\ pair.called
  /\ pair.form = "object"
  /\ pair.env1 # pair.env2
  /\ ~pair.exists

\* the identifiers put into the queue so far
PushedIdSet == {PushedIds[k] : k \in 1..Len(PushedIds)}

\* On a store that is not written to after the start: the pairs the store's
\* cursor has reached or passed, that converted, that are not in the hands
\* of the current cycle and that were never put into the queue, which are
\* the pairs whose rendering failed.
RenderDropped ==
  {i \in Ids : /\ store[i].present
               /\ FromDbOk(store[i])
               /\ i <= id_of_current_video
               /\ i \notin PushedIdSet
               /\ ~(new_entry.id = i /\ pc \in {"render", "put"})}

\* C21: a cycle whose rendering fails puts nothing into the queue and
\* leaves the store's cursor at the failed pair; no later cycle fetches,
\* renders or enqueues a pair whose rendering has failed.
C21_NoRetry ==
  /\ [][(pc = "render" /\ pc' = "sleep")
          => /\ buffered_queue' = buffered_queue
             /\ new_entry.id \in RenderDropped']_vars
  /\ [][(pc = "fetch" /\ pc' = "render") => new_entry'.id \notin RenderDropped]_vars
  /\ [][RenderDropped \subseteq RenderDropped']_vars

\* the rendering of a pair without transitions has failed and a pair with
\* a larger identifier has since been fetched, rendered and delivered
C21_Witness ==
  \E j \in RenderDropped :
    /\ store[j].traj = "empty"
    /\ \E k \in 1..Len(delivered) : delivered[k].id > j

\* the identifier of the entry put into the queue last, None before the
\* first put
LastPushed == IF Len(PushedIds) = 0 THEN NoId ELSE PushedIds[Len(PushedIds)]

C26_OneCallPerCycle ==
  /\ [][(pc = "size" /\ Len(buffered_queue) = n /\ pc' # pc)
          => /\ pc' = "sleep"
             /\ UNCHANGED <<buffered_queue, id_of_current_video, last_processed_id,
                            new_entry, error, store>>]_vars
  /\ [][(pc' = "size" /\ pc # "size") => pc = "test"]_vars
  /\ [][(pc' = "fetch" /\ pc # "fetch") => (pc = "size" /\ Len(buffered_queue) < n)]_vars
  /\ [][(pc' = "render" /\ pc # "render") => pc = "fetch"]_vars
  /\ [][(pc' = "put" /\ pc # "put") => pc = "render"]_vars
  /\ [][Len(PushedIds') # Len(PushedIds)
          => /\ pc = "put" /\ pc' = "setlast"
             /\ PushedIds' = Append(PushedIds, new_entry.id)]_vars
  /\ [][id_of_current_video' # id_of_current_video => (pc = "fetch" /\ pc' # "fetch")]_vars

\* the loop is at its capacity check with a queue that was refilled to
\* capacity after a delivery, both cursors at the entry put last
C26_Witness ==
  /\ pc = "size"
  /\ Len(buffered_queue) = n
  /\ Len(delivered) >= 1
  /\ id_of_current_video = LastPushed
  /\ last_processed_id = LastPushed

\* C27: every cycle ends in the sleep, whichever branch it takes: a full
\* queue, no entry, a store error, a rendering error or an entry put; the
\* next cycle starts only from the sleep, so between two store calls the
\* loop has slept.
C27_SleepEveryCycle ==
  /\ [][(pc' = "test" /\ pc # "test") => pc = "sleep"]_vars
  /\ [][(pc = "sleep" /\ pc' # pc) => pc' = "test"]_vars
  /\ [][(pc = "size" /\ pc' # pc) => pc' \in {"fetch", "sleep"}]_vars
  /\ [][(pc = "fetch" /\ pc' # pc)
          => pc' = IF error' = NoError THEN "render" ELSE "sleep"]_vars
  /\ [][(pc = "render" /\ pc' # pc)
          => pc' = IF error' = RenderError THEN "sleep" ELSE "put"]_vars
  /\ [][(pc = "put" /\ pc' # pc) => pc' = "setlast"]_vars
  /\ [][(pc = "setlast" /\ pc' # pc) => pc' = "sleep"]_vars
  /\ [][(pc' = "fetch" /\ pc # "fetch") => pc = "size"]_vars
  /\ [][(pc' = "size" /\ pc # "size") => (pc = "test" /\ is_running)]_vars

\* the loop sleeps after a cycle in which the store call failed, with
\* entries from earlier cycles delivered and a pair left to fetch
C27_Witness ==
  /\ pc = "sleep"
  /\ error = ConnectionFailure
  /\ Len(delivered) >= 1
  /\ FindOne(id_of_current_video) # NoId

\* C30: wherever the refilling thread is, in its store call, its rendering
\* or its sleep included, a get_next_entry call waiting on a non-empty
\* queue can return; an entry leaves the queue only in the return of one
\* call, which receives it, so every entry put is handed to one consumer
\* and no other.
C30_ProducerNeverBlocksConsumer ==
  /\ [](\A c \in Consumers :
          (cpc[c] = "blocked" /\ Len(buffered_queue) > 0) => ENABLED ReturnGet(c))
  /\ [][buffered_queue' # buffered_queue
          => \/ /\ buffered_queue' = Append(buffered_queue, new_entry)
                /\ UNCHANGED <<cpc, delivered>>
             \/ /\ buffered_queue # <<>>
                /\ buffered_queue' = Tail(buffered_queue)
                /\ delivered' = Append(delivered, Head(buffered_queue))
                /\ \E c \in Consumers :
                     /\ cpc[c] = "blocked"
                     /\ cpc' = [cpc EXCEPT ![c] = "idle"]]_vars
  /\ [][delivered' # delivered => buffered_queue' # buffered_queue]_vars
  /\ [](\A j, k \in 1..Len(delivered) : j # k => delivered[j].id # delivered[k].id)
  /\ [](\A j \in 1..Len(delivered), k \in 1..Len(buffered_queue) :
          delivered[j].id # buffered_queue[k].id)

\* the refilling thread is inside a rendering while entries of earlier
\* cycles have been delivered, one more is in the queue and a
\* get_next_entry call is waiting for it
C30_Witness ==
  /\ pc = "render"
  /\ Len(delivered) >= 1
  /\ buffered_queue # <<>>
  /\ \E c \in Consumers : cpc[c] = "blocked"

\* C28: the running flag is read only at the top of a cycle: the thread
\* exits only from there, with the flag cleared, and every other step of a
\* cycle does what it does while the flag is set; so a cycle past the test
\* when the flag is cleared completes, its rendered entry is put and
\* last_processed_id set. With the flag cleared an entry is put only by
\* such a cycle, which then leads to the exit without a further store call,
\* and nothing is put once the thread has exited.
C28_CooperativeShutdown ==
  /\ [][(pc' = "exited" /\ pc # "exited") => (pc = "test" /\ ~is_running)]_vars
  /\ [][(pc = "size" /\ pc' # pc)
          => pc' = IF Len(buffered_queue) < n THEN "fetch" ELSE "sleep"]_vars
  /\ [][(pc = "fetch" /\ pc' # pc) => pc' \in {"render", "sleep"}]_vars
  /\ [][(pc = "render" /\ pc' # pc) => pc' \in {"put", "sleep"}]_vars
  /\ [](pc = "put" => (new_entry.video1 /\ new_entry.video2 /\ ENABLED Put))
  /\ [][(pc = "put" /\ pc' # pc)
          => /\ pc' = "setlast"
             /\ buffered_queue' = Append(buffered_queue, new_entry)]_vars
  /\ [][(pc = "setlast" /\ pc' # pc)
          => (pc' = "sleep" /\ last_processed_id' = new_entry.id)]_vars
  /\ [][~is_running => ~is_running']_vars
  /\ [][(~is_running /\ Len(PushedIds') # Len(PushedIds)) => pc = "put"]_vars
  /\ [][(~is_running /\ pc \in {"setlast", "sleep", "test", "exited"})
          => pc' \in {"setlast", "sleep", "test", "exited"}]_vars
  /\ [][pc = "exited"
          => (pc' = "exited" /\ PushedIds' = PushedIds
              /\ id_of_current_video' = id_of_current_video)]_vars

\* close_routine has cleared the flag and waits in its join while the cycle
\* in progress has rendered its entry and is about to put it, after
\* earlier deliveries
C28_Witness ==
  /\ ~is_running
  /\ close_pc = "joining"
  /\ ~closed
  /\ pc = "put"
  /\ new_entry.video1
  /\ Len(delivered) >= 1

\* C29: with store calls, renderings and sleeps that return, a cleared flag
\* leads to the exit of the refilling thread and a close_routine that has
\* been called returns, whatever is in the queue and whatever the consumers
\* do; the thread exits at the first test of the flag after it was cleared,
\* and close_routine returns only when the thread has exited.
C29_CloseReturns ==
  /\ (close_pc = "joining") ~> (close_pc = "returned")
  /\ (~is_running) ~> (pc = "exited")
  /\ [][(~is_running /\ pc = "test" /\ pc' # pc) => pc' = "exited"]_vars
  /\ [][(close_pc = "joining" /\ close_pc' = "returned") => pc = "exited"]_vars
  /\ [](close_pc = "returned" => (pc = "exited" /\ ~is_running))

\* close_routine has returned for the first time with the queue at capacity
\* and a get_next_entry call waiting
C29_Witness ==
  /\ close_pc = "returned"
  /\ pc = "exited"
  /\ Len(buffered_queue) = n
  /\ \E c \in Consumers : cpc[c] = "blocked"

\* C23: the rendering of a trajectory without transitions fails with the
\* 'frames list is empty' error, with or without a seed, and a first frame
\* that is not a 3-channel array fails the shape check; in both cases no
\* file is written and no path returned.
C23_RenderFailures ==
  video.op = "render" =>
    /\ Len(video.t1.transitions) = 0
         => (video.error = EmptyFrames /\ ~video.written1 /\ ~video.path1)
    /\ (RecreateFrames(video.t1).frames > 0 /\ video.shape # "rgb")
         => (video.error \in {NotRgb, NotEnoughValues}
             /\ ~video.written1 /\ ~video.path1)

C31_SelfHealing ==
  /\ [][(pc = "fetch" /\ pc' # pc /\ error' = ConnectionFailure)
          => /\ pc' = "sleep"
             /\ UNCHANGED <<store, id_of_current_video, buffered_queue,
                            delivered, last_processed_id>>]_vars
  /\ [](\A j, k \in 1..Len(PushedIds) : j < k => PushedIds[j] < PushedIds[k])
  /\ []((pc = "sleep" /\ error = NoMoreEntries) => PushedIdSet = UnprocessedIds)

\* C32: skip_video_pair marks the current pair skipped, and the answer of
\* a get_current_video_pair request never shows a pair the session has
\* skipped: the request moves on to the next pair of the queue, and no file
\* of a skipped pair is on disk once it is answered.
C32_SkipMovesOn ==
  /\ session.reply = PairSkipped => session.current_entry.skipped
  /\ session.reply \in {SameVideos, NextVideos}
       => /\ ~session.current_entry.skipped
          /\ \A i \in session.disk : i # session.current_entry.id
                                        \/ ~session.current_entry.skipped

MovedPast ==
  {delivered[k].id : k \in 1..Len(delivered)}
    \ (IF session.handler = "idle" THEN {session.current_entry.id} ELSE {})

\* C34: when update_preference has answered with success the store holds
\* the chosen preference for the current pair, and every pair the session
\* has moved past is labeled or skipped in the store.
C34_SuccessMeansWritten ==
  /\ session.reply = PreferenceUpdated
       => /\ session.current_entry.preference \in Prefs
          /\ store[session.current_entry.id].preference = session.current_entry.preference
  /\ \A i \in MovedPast : ~Unprocessed(store[i])

\* C35: the replay of a trajectory with a seed makes one step and one
\* frame per transition and one reset more than there are terminated or
\* truncated transitions, the k-th reset with the k-th seed of the
\* trajectory, so that no seed is used twice.
C35_SeededReplay ==
  (video.op = "replay" /\ video.replay.mode = "with_seed")
    => /\ video.error = NoError
       /\ video.replay.frames = Len(video.t1.transitions)
       /\ video.replay.steps = Len(video.t1.transitions)
       /\ video.replay.resets = 1 + Cardinality(Terminals(video.t1))
       /\ \A k \in 1..Len(video.replay.seed_index) : video.replay.seed_index[k] = k

\* C36: the replay takes the unseeded branch exactly for a trajectory
\* without a seed, and there it makes one frame per transition, a reset to
\* the first recorded state and one to the recorded next state for every
\* terminated or truncated transition, and a step for every other one.
C36_UnseededReplay ==
  video.op = "replay"
    => /\ (video.replay.mode = "no_seed") <=> (video.t1.seed = NoSeed)
       /\ (video.t1.seed = NoSeed /\ Len(video.t1.transitions) > 0)
            => /\ video.error = NoError
               /\ video.replay.frames = Len(video.t1.transitions)
               /\ video.replay.resets = 1 + Cardinality(Terminals(video.t1))
               /\ video.replay.steps =
                    Len(video.t1.transitions) - Cardinality(Terminals(video.t1))

\* C37: from the capacity check to the put of a cycle the queue holds
\* fewer than n entries, because only the put of the loop adds an entry and
\* everything else leaves the queue as it is or removes its head; so the
\* put can always be made at once.
C37_PutNeverBlocks ==
  /\ [](pc \in {"fetch", "render", "put"} => Len(buffered_queue) < n)
  /\ [](pc = "put" => ENABLED Put)
  /\ [][Len(buffered_queue') > Len(buffered_queue) => (pc = "put" /\ pc' = "setlast")]_vars
  /\ [][(pc \in {"fetch", "render", "put"} /\ pc' = pc)
          => Len(buffered_queue') <= Len(buffered_queue)]_vars

\* the loop is about to put an entry into a queue with one free slot, after
\* a delivery made since the queue was last full
C37_Witness ==
  /\ pc = "put"
  /\ Len(buffered_queue) = n - 1
  /\ Len(delivered) >= 1
  /\ new_entry.video1 /\ new_entry.video2

\* C38: a get_next_entry call that returns an error, for no matching
\* document, a connection failure or a document that does not convert,
\* leaves id_of_current_video where the call found it; a call that returns
\* a pair leaves it at that pair.
C38_CursorOnlyOnReturn ==
  /\ db_result.error # NoError => id_of_current_video = db_result.after
  /\ (db_result.error = NoError /\ db_result.entry # NoEntry)
       => id_of_current_video = db_result.entry.id

ArtifactsOnDisk ==
  session.disk
    \cup {buffered_queue[k].id : k \in {j \in 1..Len(buffered_queue) :
                                           buffered_queue[j].video1 \/ buffered_queue[j].video2}}
    \cup (IF pc = "put" /\ (new_entry.video1 \/ new_entry.video2)
          THEN {new_entry.id} ELSE {})

\* C40: once terminate has returned no video file of an entry rendered by
\* the pipeline is on disk, dequeued or still in the queue.
C40_NoArtifactLeft ==
  session.handler = "terminated" => ArtifactsOnDisk = {}

====
